---- MODULE Spec2Model ----
(***************************************************************************)
(* A model of TmuxOrchestrator (src/tmux_utils.py).                        *)
(*                                                                         *)
(* One orchestrator object runs one public method at a time.  Every        *)
(* subprocess.run of the source is one step of the model: the step issues  *)
(* the tmux command, draws the command's outcome (exit status and stdout)  *)
(* from a bounded set of outputs, and runs the Python code up to the next  *)
(* tmux command, input() or return.  The operator may assign safety_mode   *)
(* and max_lines_capture between any two steps.                            *)
(*                                                                         *)
(* Text is a sequence of one-character strings, so that str.lower,         *)
(* str.strip, str.split and int() are computed as Python computes them.    *)
(* `log` records, in order, what the stand-in tmux, the stand-in stdin and *)
(* the clock observed during the running call.                             *)
(***************************************************************************)
EXTENDS Integers, Sequences, FiniteSets, TLC

VARIABLES
    safety_mode,        \* self.safety_mode
    max_lines_capture,  \* self.max_lines_capture
    op,                 \* the public method running ("none" before the first call)
    pc,                 \* the position inside it
    args,               \* the arguments of the call
    entry_cfg,          \* the configuration at the moment the call was made
    cfg_changes,        \* operator assignments since the call was made
    log,                \* tmux commands, prompts, inputs and clock reads, in order
    retval,             \* what the call returned or raised
    sess_lines,         \* get_tmux_sessions: session lines still to process
    sessions,           \* get_tmux_sessions: `sessions`
    status,             \* get_all_windows_status: `status`
    session_data,       \* get_all_windows_status: `session_data`
    si,                 \* get_all_windows_status: index of the session in the loop
    wi,                 \* get_all_windows_status: index of the window in the loop
    parts,              \* get_window_info: `parts`
    prior_yes           \* history: the dispatch call just before this one was
                        \* answered 'yes' at its prompt

vars == <<safety_mode, max_lines_capture, op, pc, args, entry_cfg, cfg_changes,
          log, retval, sess_lines, sessions, status, session_data, si, wi, parts,
          prior_yes>>

-----------------------------------------------------------------------------
(* Bounds of the model.                                                    *)

\* operator assignments to the configuration during one call
MaxCfgChanges == 1

-----------------------------------------------------------------------------
(* Program constants.                                                      *)

DefaultMaxLines == 1000
DefaultNumLines == 50
TailLines == 10
HeaderRuleLen == 50
SessionRuleLen == 30

-----------------------------------------------------------------------------
(* Text: Python str operations on sequences of characters.                 *)

UpperAlpha == <<"A","B","C","D","E","F","G","H","I","J","K","L","M",
                "N","O","P","Q","R","S","T","U","V","W","X","Y","Z">>
LowerAlpha == <<"a","b","c","d","e","f","g","h","i","j","k","l","m",
                "n","o","p","q","r","s","t","u","v","w","x","y","z">>
Digits     == <<"0","1","2","3","4","5","6","7","8","9">>
Whitespace == {" ", "\n", "\t", "\r"}

LowerChar(c) ==
    IF \E i \in 1..26 : UpperAlpha[i] = c
    THEN LowerAlpha[CHOOSE i \in 1..26 : UpperAlpha[i] = c]
    ELSE c

\* str.lower()
Lower(s) == [i \in 1..Len(s) |-> LowerChar(s[i])]

RECURSIVE LStrip(_)
LStrip(s) ==
    IF s # <<>> /\ Head(s) \in Whitespace THEN LStrip(Tail(s)) ELSE s

RECURSIVE RStrip(_)
RStrip(s) ==
    IF s # <<>> /\ s[Len(s)] \in Whitespace
    THEN RStrip(SubSeq(s, 1, Len(s) - 1))
    ELSE s

\* str.strip()
Strip(s) == RStrip(LStrip(s))

\* str.split(sep) for a one-character sep: "" gives [""], "a:" gives ["a", ""]
RECURSIVE SplitAcc(_, _, _, _)
SplitAcc(s, sep, cur, acc) ==
    IF s = <<>> THEN Append(acc, cur)
    ELSE IF Head(s) = sep THEN SplitAcc(Tail(s), sep, <<>>, Append(acc, cur))
    ELSE SplitAcc(Tail(s), sep, Append(cur, Head(s)), acc)

Split(s, sep) == SplitAcc(s, sep, <<>>, <<>>)

IsDigit(c) == \E i \in 1..10 : Digits[i] = c
DigitVal(c) == (CHOOSE i \in 1..10 : Digits[i] = c) - 1

\* int(s) raises ValueError unless, after stripping, s is an optional sign
\* followed by decimal digits
IntOk(s) ==
    LET t == Strip(s)
        u == IF t # <<>> /\ Head(t) \in {"+", "-"} THEN Tail(t) ELSE t
    IN  u # <<>> /\ \A i \in 1..Len(u) : IsDigit(u[i])

RECURSIVE DigitsVal(_, _)
DigitsVal(u, acc) ==
    IF u = <<>> THEN acc ELSE DigitsVal(Tail(u), 10 * acc + DigitVal(Head(u)))

IntVal(s) ==
    LET t == Strip(s)
    IN  IF Head(t) = "-" THEN 0 - DigitsVal(Tail(t), 0)
        ELSE IF Head(t) = "+" THEN DigitsVal(Tail(t), 0)
        ELSE DigitsVal(t, 0)

\* a in b, for str
Contains(b, a) ==
    \E i \in 1..(Len(b) - Len(a) + 1) : SubSeq(b, i, i + Len(a) - 1) = a

-----------------------------------------------------------------------------
(* Values the model draws arguments, inputs and tmux outputs from.         *)

Yes        == <<"y","e","s">>
ExecuteKey == <<"C","-","m">>

\* what the operator may type at the "Confirm? (yes/no): " prompt
Responses ==
    { <<"y","e","s">>,
      <<"Y","E","S">>,
      <<"Y","e","s">>,
      <<"y","E","s">>,
      <<>>,
      <<"n","o">>,
      <<"y">>,
      <<"y","e","s"," ">>,
      <<"y","e","s","s">>,
      <<"n">> }

\* key sequences and command lines passed by callers
KeyArgs == { <<"l","s">>, <<"C","-","m">> }

SessionA == <<"a">>
SessionB == <<"b">>

\* (session, window) targets passed by callers
Targets == { <<SessionA, 0>>, <<SessionB, 1>> }

\* num_lines passed to capture_window_content
NumLinesArgs == { 0 - 5, 0, 1, 10, DefaultNumLines, DefaultMaxLines, DefaultMaxLines + 1, 5000 }

\* values the operator assigns to max_lines_capture
MaxLinesValues == { DefaultMaxLines, 10 }

\* stdout of `tmux list-sessions -F "#{session_name}:#{session_attached}"`
SessionsOut ==
    { <<>>,
      <<"a",":","1","\n">>,
      <<"a",":","1","\n","b",":","0","\n">>,
      <<"a","\n">> }

\* stdout of `tmux list-windows -t S -F "#{window_index}:#{window_name}:#{window_active}"`
WindowsOut ==
    { <<>>,
      <<"0",":","s","h",":","1","\n">>,
      <<"0",":","s","h",":","0","\n","1",":","V","i","m",":","1","\n">>,
      <<"0",":","s","h","\n">> }

\* stdout of `tmux display-message -p "#{window_name}:#{window_active}:#{window_panes}:#{window_layout}"`
DisplayOut ==
    { <<>>,
      <<"s","h",":","1",":","2",":","L","\n">>,
      <<"s","h",":","1","\n">>,
      <<"s",":","h",":","1",":","2",":","L","\n">>,
      <<"s","h",":","1",":","x",":","L","\n">> }

\* stdout of `tmux capture-pane -p -S -N`: twelve lines, two of them blank,
\* so that the last ten raw lines and the last ten non-blank lines differ
CaptureOut ==
    { <<"a","\n","b","\n","\n","c","\n","1","\n","2","\n","3","\n","\n","4","\n","5","\n","6","\n","7","\n">> }

\* the text of f"Error capturing window content: {e}"
ErrCaptureText == <<"E","r","r","o","r"," ","c","a","p","t","u","r","i","n","g">>
\* the text of f"Could not get window info: {e}"
ErrInfoText == <<"C","o","u","l","d"," ","n","o","t"," ","g","e","t">>

-----------------------------------------------------------------------------
(* Records.                                                                *)

\* one observation of the stand-in tmux / stdin / clock
Event(ev, session, index, keys, lines, ok, out) ==
    [ev |-> ev, session |-> session, index |-> index, keys |-> keys,
     lines |-> lines, ok |-> ok, out |-> out]

NoArgs ==
    [session |-> <<>>, index |-> 0, keys |-> <<>>, confirm |-> TRUE,
     num_lines |-> DefaultNumLines, pattern |-> <<>>]

Ret(kind, val) == [kind |-> kind, val |-> val]
NoRet == Ret("none", FALSE)

\* TmuxWindow(session_name, window_index, window_name, active)
TmuxWindow(session_name, window_index, window_name, active) ==
    [session_name |-> session_name, window_index |-> window_index,
     window_name |-> window_name, active |-> active]

\* TmuxSession(name, windows, attached)
TmuxSession(name, windows, attached) ==
    [name |-> name, windows |-> windows, attached |-> attached]

\* the three values get_window_info returns: the dict with "content", the
\* dict with "error", and None
InfoDict(name, active, panes, layout, content) ==
    [kind |-> "info", name |-> name, active |-> active, panes |-> panes,
     layout |-> layout, content |-> content, error |-> <<>>]
NoneInfo ==
    [kind |-> "None", name |-> <<>>, active |-> FALSE, panes |-> 0,
     layout |-> <<>>, content |-> <<>>, error |-> <<>>]
\* mutant: the except branch of get_window_info returns nothing
ErrorDict_FallsThrough == NoneInfo
ErrorDict ==
    [kind |-> "error", name |-> <<>>, active |-> FALSE, panes |-> 0,
     layout |-> <<>>, content |-> <<>>, error |-> ErrInfoText]

NoStatus == [timestamp |-> 0, sessions |-> <<>>]
NoSessionData == [name |-> <<>>, attached |-> FALSE, windows |-> <<>>]

-----------------------------------------------------------------------------
(* The object after __init__, before any call.                             *)

\* the spellings of the affirmative word, whatever the case of each letter
YesAnyCase ==
    { <<a, b, c>> : a \in {"y", "Y"}, b \in {"e", "E"}, c \in {"s", "S"} }

Init ==
    /\ safety_mode = TRUE
    /\ max_lines_capture = DefaultMaxLines
    /\ op = "none"
    /\ pc = "idle"
    /\ args = NoArgs
    /\ entry_cfg = [safety_mode |-> TRUE, max_lines_capture |-> DefaultMaxLines]
    /\ cfg_changes = 0
    /\ log = <<>>
    /\ retval = NoRet
    /\ sess_lines = <<>>
    /\ sessions = <<>>
    /\ status = NoStatus
    /\ session_data = NoSessionData
    /\ si = 0
    /\ wi = 0
    /\ parts = <<>>
    /\ prior_yes = FALSE

Idle == pc = "idle"

\* the frame of a fresh call: no locals, an empty log, the configuration noted
Enter(o, a) ==
    /\ Idle
    /\ op' = o
    /\ args' = a
    /\ entry_cfg' = [safety_mode |-> safety_mode, max_lines_capture |-> max_lines_capture]
    /\ cfg_changes' = 0
    /\ retval' = NoRet
    /\ sess_lines' = <<>>
    /\ sessions' = <<>>
    /\ status' = NoStatus
    /\ session_data' = NoSessionData
    /\ si' = 0
    /\ wi' = 0
    /\ parts' = <<>>
    /\ prior_yes' = (prior_yes /\ o \in {"send_keys_to_window", "send_command_to_window"})
    /\ UNCHANGED <<safety_mode, max_lines_capture>>

\* `return v` of the public method
Return(v) ==
    /\ retval' = v
    /\ pc' = "done"

\* the caller takes the returned value (or the exception) and the frame of
\* the call is gone
Finish ==
    /\ pc = "done"
    /\ pc' = "idle"
    /\ op' = "none"
    /\ args' = NoArgs
    /\ entry_cfg' = [safety_mode |-> safety_mode, max_lines_capture |-> max_lines_capture]
    /\ cfg_changes' = 0
    /\ log' = <<>>
    /\ retval' = NoRet
    /\ sess_lines' = <<>>
    /\ sessions' = <<>>
    /\ status' = NoStatus
    /\ session_data' = NoSessionData
    /\ si' = 0
    /\ wi' = 0
    /\ parts' = <<>>
    /\ prior_yes' = \E i \in 1..Len(log) : log[i].ev = "input" /\ log[i].out \in YesAnyCase
    /\ UNCHANGED <<safety_mode, max_lines_capture>>

Locals == <<sess_lines, sessions, status, session_data, si, wi, parts>>
Config == <<safety_mode, max_lines_capture>>
Frame  == <<op, args, entry_cfg, cfg_changes, prior_yes>>

-----------------------------------------------------------------------------
(* The operator: self.safety_mode = b, self.max_lines_capture = m.         *)

SetSafetyMode(b) ==
    /\ cfg_changes < MaxCfgChanges
    /\ b # safety_mode
    /\ safety_mode' = b
    /\ cfg_changes' = cfg_changes + 1
    /\ UNCHANGED <<max_lines_capture, op, pc, args, entry_cfg, log, retval, Locals, prior_yes>>

SetMaxLines(m) ==
    /\ cfg_changes < MaxCfgChanges
    /\ m # max_lines_capture
    /\ max_lines_capture' = m
    /\ cfg_changes' = cfg_changes + 1
    /\ UNCHANGED <<safety_mode, op, pc, args, entry_cfg, log, retval, Locals, prior_yes>>

-----------------------------------------------------------------------------
(* The write path: send_keys_to_window and send_command_to_window.         *)

\* mutant: any response that starts with the letter y is taken for a yes
IsAffirmative_FirstLetter(response) ==
    response # <<>> /\ LowerChar(response[1]) = "y"

\* `response.lower() != 'yes'` is false
IsAffirmative(response) == Lower(response) = Yes

\* mutant: the caller's confirm=False no longer bypasses the prompt
NeedsConfirmation_IgnoresConfirm(confirm) == safety_mode

\* `if self.safety_mode and confirm:`
NeedsConfirmation(confirm) == safety_mode /\ confirm

\* mutant: a 'yes' given to the dispatch call before this one is remembered
\* and the prompt skipped
SafetyCheck_Remembers(a) ==
    IF NeedsConfirmation(a.confirm) /\ ~prior_yes
    THEN /\ log' = <<Event("prompt", a.session, a.index, a.keys, 0, TRUE, <<>>)>>
         /\ pc' = "awaiting"
    ELSE /\ log' = <<>>
         /\ pc' = "send_keys"

\* entry of send_keys_to_window: the safety check up to input()
SafetyCheck(a) ==
    IF NeedsConfirmation(a.confirm)
    THEN /\ log' = <<Event("prompt", a.session, a.index, a.keys, 0, TRUE, <<>>)>>
         /\ pc' = "awaiting"
    ELSE /\ log' = <<>>
         /\ pc' = "send_keys"

Call_send_keys_to_window(t, k, c) ==
    LET a == [NoArgs EXCEPT !.session = t[1], !.index = t[2], !.keys = k, !.confirm = c]
    IN  /\ Enter("send_keys_to_window", a)
        /\ SafetyCheck(a)

\* send_command_to_window starts by calling send_keys_to_window(command, confirm)
Call_send_command_to_window(t, k, c) ==
    LET a == [NoArgs EXCEPT !.session = t[1], !.index = t[2], !.keys = k, !.confirm = c]
    IN  /\ Enter("send_command_to_window", a)
        /\ SafetyCheck(a)

\* mutant: the wait for the response gives up by itself and the call is
\* cancelled without any input being read
Respond_TimesOut(r) ==
    /\ pc = "awaiting"
    /\ Return(Ret("bool", FALSE))
    /\ UNCHANGED <<log, Config, Frame, Locals>>

\* input() returns: anything but 'yes' (any case) cancels
Respond(r) ==
    /\ pc = "awaiting"
    /\ log' = Append(log, Event("input", args.session, args.index, <<>>, 0, TRUE, r))
    /\ IF IsAffirmative(r)
       THEN /\ pc' = "send_keys"
            /\ UNCHANGED retval
       ELSE Return(Ret("bool", FALSE))
    /\ UNCHANGED <<Config, Frame, Locals>>

\* mutant: the CalledProcessError of send-keys is swallowed and True returned
AfterSendKeys_AlwaysTrue(ok) ==
    IF op = "send_command_to_window"
    THEN /\ pc' = "send_enter"
         /\ UNCHANGED retval
    ELSE Return(Ret("bool", TRUE))

\* mutant: send_command_to_window sends C-m whatever the text step returned
AfterSendKeys_Unconditional(ok) ==
    IF op = "send_command_to_window"
    THEN /\ pc' = "send_enter"
         /\ UNCHANGED retval
    ELSE Return(Ret("bool", ok))

\* mutant: a failed send-keys command is issued again
AfterSendKeys_Retry(ok) ==
    IF ~ok
    THEN /\ pc' = "send_keys"
         /\ UNCHANGED retval
    ELSE IF op = "send_command_to_window"
    THEN /\ pc' = "send_enter"
         /\ UNCHANGED retval
    ELSE Return(Ret("bool", ok))

\* what send_keys_to_window's subprocess.run leads to: True / False, and in
\* send_command_to_window the Enter step after True
AfterSendKeys(ok) ==
    IF op = "send_command_to_window" /\ ok
    THEN /\ pc' = "send_enter"
         /\ UNCHANGED retval
    ELSE Return(Ret("bool", ok))

\* `tmux send-keys -t session:index keys`
SendKeys(ok) ==
    /\ pc = "send_keys"
    /\ log' = Append(log, Event("send-keys", args.session, args.index, args.keys, 0, ok, <<>>))
    /\ AfterSendKeys(ok)
    /\ UNCHANGED <<Config, Frame, Locals>>

\* mutant: send_command_to_window reports failure whatever the Enter step did
SendEnter_AlwaysFalse(ok) ==
    /\ pc = "send_enter"
    /\ log' = Append(log, Event("send-keys", args.session, args.index, ExecuteKey, 0, ok, <<>>))
    /\ Return(Ret("bool", FALSE))
    /\ UNCHANGED <<Config, Frame, Locals>>

\* `tmux send-keys -t session:index C-m`
SendEnter(ok) ==
    /\ pc = "send_enter"
    /\ log' = Append(log, Event("send-keys", args.session, args.index, ExecuteKey, 0, ok, <<>>))
    /\ Return(Ret("bool", ok))
    /\ UNCHANGED <<Config, Frame, Locals>>


-----------------------------------------------------------------------------
(* The read path.                                                          *)

\* window-name patterns passed to find_window_by_name
Patterns == { <<>>, <<"v","i","m">>, <<"S","H">>, <<"z","z">> }

\* an exception leaves the public method: nothing in the source catches
\* ValueError, IndexError or TypeError
Raise(e) ==
    /\ retval' = Ret("raised", e)
    /\ pc' = "done"
    /\ UNCHANGED Locals

RECURSIVE DropBlank(_)
\* `if not line: continue`
DropBlank(lines) ==
    IF lines # <<>> /\ Head(lines) = <<>> THEN DropBlank(Tail(lines)) ELSE lines

\* `window_index, window_name, window_active = window_line.split(':')` and
\* int(window_index) succeed
WindowLineOk(window_line) ==
    LET f == Split(window_line, ":")
    IN  Len(f) = 3 /\ IntOk(f[1])

\* the TmuxWindow built from one window line
ParseWindow(session_name, window_line) ==
    LET f == Split(window_line, ":")
    IN  TmuxWindow(session_name, IntVal(f[1]), f[2], f[3] = <<"1">>)

RECURSIVE ParseWindows(_, _)
\* the inner for loop of get_tmux_sessions over the non-blank window lines
ParseWindows(session_name, lines) ==
    IF lines = <<>> THEN <<>>
    ELSE IF Head(lines) = <<>> THEN ParseWindows(session_name, Tail(lines))
    ELSE <<ParseWindow(session_name, Head(lines))>>
             \o ParseWindows(session_name, Tail(lines))

RECURSIVE MatchWindows(_, _, _)
MatchWindows(name, windows, pattern) ==
    IF windows = <<>> THEN <<>>
    ELSE (IF Contains(Lower(Head(windows).window_name), Lower(pattern))
          THEN << <<name, Head(windows).window_index>> >>
          ELSE <<>>)
         \o MatchWindows(name, Tail(windows), pattern)

RECURSIVE Matches(_, _)
\* the two loops of find_window_by_name
Matches(sess, pattern) ==
    IF sess = <<>> THEN <<>>
    ELSE MatchWindows(Head(sess).name, Head(sess).windows, pattern)
         \o Matches(Tail(sess), pattern)

SessionData(session) ==
    [name |-> session.name, attached |-> session.attached, windows |-> <<>>]

WindowData(window, info) ==
    [index |-> window.window_index, name |-> window.window_name,
     active |-> window.active, info |-> info]

RECURSIVE SkipEmpty(_, _, _)
\* the outer loop of get_all_windows_status from session i on, up to the
\* first session that has a window: sessions without windows are appended
\* with an empty window list
SkipEmpty(sess, st, i) ==
    IF i > Len(sess) THEN [status |-> st, si |-> i]
    ELSE IF sess[i].windows = <<>>
         THEN SkipEmpty(sess, [st EXCEPT !.sessions = Append(@, SessionData(sess[i]))], i + 1)
         ELSE [status |-> st, si |-> i]

RECURSIVE IntStr(_)
\* str(n) / f"{n}"
IntStr(n) ==
    IF n < 0 THEN <<"-">> \o IntStr(0 - n)
    ELSE IF n < 10 THEN <<Digits[n + 1]>>
    ELSE IntStr(n \div 10) \o <<Digits[(n % 10) + 1]>>

\* c * n
Repeat(c, n) == [i \in 1..n |-> c]

RECURSIVE Concat(_)
\* the texts of a sequence, one after the other
Concat(texts) ==
    IF texts = <<>> THEN <<>> ELSE Head(texts) \o Concat(Tail(texts))

SnapshotTitle == <<"T","m","u","x"," ","M","o","n","i","t","o","r","i","n","g"," ","S","n","a","p","s","h","o","t"," ","-"," ">>
SessionLabel  == <<"S","e","s","s","i","o","n",":"," ">>
AttachedMark  == <<" ","(","A","T","T","A","C","H","E","D",")">>
DetachedMark  == <<" ","(","D","E","T","A","C","H","E","D",")">>
WindowLabel   == <<" "," ","W","i","n","d","o","w"," ">>
ActiveMark    == <<" ","(","A","C","T","I","V","E",")">>
RecentLabel   == <<" "," "," "," ","R","e","c","e","n","t"," ","o","u","t","p","u","t",":">>
LineMarker    == <<" "," "," "," ","|"," ">>

\* mutant: the blank lines are dropped before the last ten lines are taken
RecentLines_FilterFirst(content) ==
    LET content_lines == SelectSeq(Split(content, "\n"), LAMBDA l : Strip(l) # <<>>)
    IN  IF Len(content_lines) > TailLines
        THEN SubSeq(content_lines, Len(content_lines) - TailLines + 1, Len(content_lines))
        ELSE content_lines

\* `content_lines[-10:] if len(content_lines) > 10 else content_lines`
RecentLines(content) ==
    LET content_lines == Split(content, "\n")
    IN  IF Len(content_lines) > TailLines
        THEN SubSeq(content_lines, Len(content_lines) - TailLines + 1, Len(content_lines))
        ELSE content_lines

\* the "Recent output:" part of one window: a marked line for every recent
\* line that is not blank
RecentText(content) ==
    LET recent_lines == RecentLines(content)
    IN  RecentLabel \o <<"\n">> \o
        Concat([k \in 1..Len(recent_lines) |->
                   IF Strip(recent_lines[k]) # <<>>
                   THEN LineMarker \o recent_lines[k] \o <<"\n">>
                   ELSE <<>>])

\* the block create_monitoring_snapshot writes for one window
WindowText(window) ==
    WindowLabel \o IntStr(window.index) \o <<":", " ">> \o window.name
    \o (IF window.active THEN ActiveMark ELSE <<>>) \o <<"\n">>
    \o (IF window.info.kind = "info" THEN RecentText(window.info.content) ELSE <<>>)
    \o <<"\n">>

\* the header and the window blocks of one session
SessionText(session) ==
    SessionLabel \o session.name
    \o (IF session.attached THEN AttachedMark ELSE DetachedMark) \o <<"\n">>
    \o Repeat("-", SessionRuleLen) \o <<"\n">>
    \o Concat([k \in 1..Len(session.windows) |-> WindowText(session.windows[k])])

\* the text create_monitoring_snapshot builds from a status
Digest(st) ==
    SnapshotTitle \o IntStr(st.timestamp) \o <<"\n">>
    \o Repeat("=", HeaderRuleLen) \o <<"\n", "\n">>
    \o Concat([k \in 1..Len(st.sessions) |-> SessionText(st.sessions[k])])

\* `'content' in window['info']` raises TypeError when get_window_info
\* returned None
HasNoneInfo(st) ==
    \E k \in 1..Len(st.sessions) :
        \E j \in 1..Len(st.sessions[k].windows) :
            st.sessions[k].windows[j].info.kind = "None"

\* mutant: the timestamp is taken again when the status is returned
AfterGetAllWindowsStatus_Restamp(st) ==
    /\ Return(Ret("status", [st EXCEPT !.timestamp = Len(log)]))
    /\ status' = st

\* `return status` of get_all_windows_status; in create_monitoring_snapshot
\* the rendering of the status that follows it
AfterGetAllWindowsStatus(st) ==
    /\ status' = st
    /\ IF op = "create_monitoring_snapshot"
       THEN IF HasNoneInfo(st)
            THEN /\ retval' = Ret("raised", "TypeError")
                 /\ pc' = "done"
            ELSE Return(Ret("text", Digest(st)))
       ELSE Return(Ret("status", st))

\* the loops of get_all_windows_status from session i on, up to the next
\* get_window_info call or the return
StatusLoop(sess, st, i) ==
    LET n == SkipEmpty(sess, st, i)
    IN  IF n.si > Len(sess)
        THEN /\ AfterGetAllWindowsStatus(n.status)
             /\ UNCHANGED <<session_data, si, wi>>
        ELSE /\ status' = n.status
             /\ session_data' = SessionData(sess[n.si])
             /\ si' = n.si
             /\ wi' = 1
             /\ pc' = "display_message"
             /\ UNCHANGED retval

\* get_tmux_sessions returns `sess` to its caller
AfterGetTmuxSessions(sess) ==
    /\ sessions' = sess
    /\ sess_lines' = <<>>
    /\ UNCHANGED <<parts>>
    /\ CASE op = "get_tmux_sessions" ->
              /\ Return(Ret("sessions", sess))
              /\ UNCHANGED <<status, session_data, si, wi>>
         [] op = "find_window_by_name" ->
              /\ Return(Ret("matches", Matches(sess, args.pattern)))
              /\ UNCHANGED <<status, session_data, si, wi>>
         [] OTHER ->
              /\ pc' = "init_status"
              /\ UNCHANGED <<retval, status, session_data, si, wi>>

\* the outer for loop of get_tmux_sessions with `lines` left and `sess`
\* built, up to the next list-windows command, the return or the ValueError
\* of `session_name, attached = line.split(':')`
SessionLoop(lines, sess) ==
    LET rest == DropBlank(lines)
    IN  IF rest = <<>> THEN AfterGetTmuxSessions(sess)
        ELSE IF Len(Split(Head(rest), ":")) # 2 THEN Raise("ValueError")
        ELSE /\ sess_lines' = rest
             /\ sessions' = sess
             /\ pc' = "list_windows"
             /\ UNCHANGED <<retval, status, session_data, si, wi, parts>>

Call_get_tmux_sessions ==
    /\ Enter("get_tmux_sessions", NoArgs)
    /\ log' = <<>>
    /\ pc' = "list_sessions"

Call_get_all_windows_status ==
    /\ Enter("get_all_windows_status", NoArgs)
    /\ log' = <<>>
    /\ pc' = "list_sessions"

Call_create_monitoring_snapshot ==
    /\ Enter("create_monitoring_snapshot", NoArgs)
    /\ log' = <<>>
    /\ pc' = "list_sessions"

Call_find_window_by_name(pattern) ==
    /\ Enter("find_window_by_name", [NoArgs EXCEPT !.pattern = pattern])
    /\ log' = <<>>
    /\ pc' = "list_sessions"

\* mutant: the CalledProcessError of list-sessions is not caught
ListSessions_Propagates(ok, out) ==
    /\ pc = "list_sessions"
    /\ log' = Append(log, Event("list-sessions", <<>>, 0, <<>>, 0, ok, out))
    /\ IF ok
       THEN SessionLoop(Split(Strip(out), "\n"), <<>>)
       ELSE Raise("CalledProcessError")
    /\ UNCHANGED <<Config, Frame>>

\* `tmux list-sessions`; CalledProcessError makes get_tmux_sessions return []
ListSessions(ok, out) ==
    /\ pc = "list_sessions"
    /\ log' = Append(log, Event("list-sessions", <<>>, 0, <<>>, 0, ok, out))
    /\ IF ok
       THEN SessionLoop(Split(Strip(out), "\n"), <<>>)
       ELSE AfterGetTmuxSessions(<<>>)
    /\ UNCHANGED <<Config, Frame>>

\* `tmux list-windows -t session_name` for the session line at the head of
\* sess_lines; CalledProcessError makes get_tmux_sessions return []
ListWindows(ok, out) ==
    LET f == Split(Head(sess_lines), ":")
        session_name == f[1]
        attached == f[2]
        window_lines == Split(Strip(out), "\n")
    IN  /\ pc = "list_windows"
        /\ log' = Append(log, Event("list-windows", session_name, 0, <<>>, 0, ok, out))
        /\ IF ~ok THEN AfterGetTmuxSessions(<<>>)
           ELSE IF \E k \in 1..Len(window_lines) :
                       window_lines[k] # <<>> /\ ~WindowLineOk(window_lines[k])
           THEN Raise("ValueError")
           ELSE SessionLoop(Tail(sess_lines),
                    Append(sessions,
                           TmuxSession(session_name,
                                       ParseWindows(session_name, window_lines),
                                       attached = <<"1">>)))
        /\ UNCHANGED <<Config, Frame>>

\* the logical clock read by datetime.now(): the observations made so far
Now == Len(log)

\* `status = {"timestamp": datetime.now().isoformat(), "sessions": []}` and
\* the loops up to the first get_window_info
InitStatus ==
    /\ pc = "init_status"
    /\ log' = Append(log, Event("now", <<>>, 0, <<>>, Now, TRUE, <<>>))
    /\ StatusLoop(sessions, [timestamp |-> Now, sessions |-> <<>>], 1)
    /\ UNCHANGED <<Config, Frame, sess_lines, sessions, parts>>

Call_get_window_info(t) ==
    /\ Enter("get_window_info", [NoArgs EXCEPT !.session = t[1], !.index = t[2]])
    /\ log' = <<>>
    /\ pc' = "display_message"

Call_capture_window_content(t, n) ==
    /\ Enter("capture_window_content",
             [NoArgs EXCEPT !.session = t[1], !.index = t[2], !.num_lines = n])
    /\ log' = <<>>
    /\ pc' = "capture_pane"

InSnapshot == op \in {"get_all_windows_status", "create_monitoring_snapshot"}

\* the (session_name, window_index) the running get_window_info /
\* capture_window_content was called with
TargetSession == IF InSnapshot THEN sessions[si].name ELSE args.session
\* mutant: the window is addressed by its position in the list
TargetIndex_Position == IF InSnapshot THEN wi ELSE args.index

TargetIndex == IF InSnapshot THEN sessions[si].windows[wi].window_index ELSE args.index

\* get_window_info returns `info` to its caller
AfterGetWindowInfo(info) ==
    IF ~InSnapshot
    THEN /\ Return(Ret("info", info))
         /\ UNCHANGED <<status, session_data, si, wi>>
    ELSE LET sd == [session_data EXCEPT
                       !.windows = Append(@, WindowData(sessions[si].windows[wi], info))]
         IN  IF wi < Len(sessions[si].windows)
             THEN /\ session_data' = sd
                  /\ wi' = wi + 1
                  /\ pc' = "display_message"
                  /\ UNCHANGED <<retval, status, si>>
             ELSE StatusLoop(sessions, [status EXCEPT !.sessions = Append(@, sd)], si + 1)

\* `tmux display-message -t session:index -p ...` and the dict literal up to
\* the capture_window_content call
DisplayMessage(ok, out) ==
    LET p == Split(Strip(out), ":")
    IN  /\ pc = "display_message"
        /\ log' = Append(log, Event("display-message", TargetSession, TargetIndex,
                                    <<>>, 0, ok, out))
        /\ IF ~ok THEN AfterGetWindowInfo(ErrorDict) /\ UNCHANGED parts
           ELSE IF Strip(out) = <<>> THEN AfterGetWindowInfo(NoneInfo) /\ UNCHANGED parts
           ELSE IF Len(p) < 3 THEN Raise("IndexError")
           ELSE IF ~IntOk(p[3]) THEN Raise("ValueError")
           ELSE IF Len(p) < 4 THEN Raise("IndexError")
           ELSE /\ parts' = p
                /\ pc' = "capture_pane"
                /\ UNCHANGED <<retval, status, session_data, si, wi>>
        /\ UNCHANGED <<Config, Frame, sess_lines, sessions>>

\* `if num_lines > self.max_lines_capture: num_lines = self.max_lines_capture`
ClampLines(num_lines) ==
    IF num_lines > max_lines_capture THEN max_lines_capture ELSE num_lines

\* mutant: the capped line count is stored back into self.max_lines_capture
CapturePane_StoresLimit(ok, out) ==
    LET num_lines == ClampLines(IF op = "capture_window_content"
                                THEN args.num_lines ELSE DefaultNumLines)
        content == IF ok THEN out ELSE ErrCaptureText
    IN  /\ pc = "capture_pane"
        /\ log' = Append(log, Event("capture-pane", TargetSession, TargetIndex,
                                    <<>>, num_lines, ok, out))
        /\ IF op = "capture_window_content"
           THEN /\ Return(Ret("text", content))
                /\ UNCHANGED <<status, session_data, si, wi>>
           ELSE AfterGetWindowInfo(InfoDict(parts[1], parts[2] = <<"1">>,
                                            IntVal(parts[3]), parts[4], content))
        /\ max_lines_capture' = num_lines
        /\ UNCHANGED <<safety_mode, Frame, sess_lines, sessions, parts>>

\* `tmux capture-pane -t session:index -p -S -num_lines`
CapturePane(ok, out) ==
    LET num_lines == ClampLines(IF op = "capture_window_content"
                                THEN args.num_lines ELSE DefaultNumLines)
        content == IF ok THEN out ELSE ErrCaptureText
    IN  /\ pc = "capture_pane"
        /\ log' = Append(log, Event("capture-pane", TargetSession, TargetIndex,
                                    <<>>, num_lines, ok, out))
        /\ IF op = "capture_window_content"
           THEN /\ Return(Ret("text", content))
                /\ UNCHANGED <<status, session_data, si, wi>>
           ELSE AfterGetWindowInfo(InfoDict(parts[1], parts[2] = <<"1">>,
                                            IntVal(parts[3]), parts[4], content))
        /\ UNCHANGED <<Config, Frame, sess_lines, sessions, parts>>

-----------------------------------------------------------------------------

Next ==
    \/ \E b \in BOOLEAN : SetSafetyMode(b)
    \/ \E m \in MaxLinesValues : SetMaxLines(m)
    \/ \E t \in Targets, k \in KeyArgs, c \in BOOLEAN : Call_send_keys_to_window(t, k, c)
    \/ \E t \in Targets, k \in KeyArgs, c \in BOOLEAN : Call_send_command_to_window(t, k, c)
    \/ \E r \in Responses : Respond(r)
    \/ \E ok \in BOOLEAN : SendKeys(ok)
    \/ \E ok \in BOOLEAN : SendEnter(ok)
    \/ Call_get_tmux_sessions
    \/ Call_get_all_windows_status
    \/ Call_create_monitoring_snapshot
    \/ \E pattern \in Patterns : Call_find_window_by_name(pattern)
    \/ \E t \in Targets : Call_get_window_info(t)
    \/ \E t \in Targets, n \in NumLinesArgs : Call_capture_window_content(t, n)
    \/ ListSessions(FALSE, <<>>)
    \/ \E out \in SessionsOut : ListSessions(TRUE, out)
    \/ ListWindows(FALSE, <<>>)
    \/ \E out \in WindowsOut : ListWindows(TRUE, out)
    \/ InitStatus
    \/ DisplayMessage(FALSE, <<>>)
    \/ \E out \in DisplayOut : DisplayMessage(TRUE, out)
    \/ Finish
    \/ CapturePane(FALSE, <<>>)
    \/ \E out \in CaptureOut : CapturePane(TRUE, out)

Spec == Init /\ [][Next]_vars

\* the write path alone: the operator's assignments and the two send methods
WriteNext ==
    \/ \E b \in BOOLEAN : SetSafetyMode(b)
    \/ \E m \in MaxLinesValues : SetMaxLines(m)
    \/ \E t \in Targets, k \in KeyArgs, c \in BOOLEAN : Call_send_keys_to_window(t, k, c)
    \/ \E t \in Targets, k \in KeyArgs, c \in BOOLEAN : Call_send_command_to_window(t, k, c)
    \/ \E r \in Responses : Respond(r)
    \/ \E ok \in BOOLEAN : SendKeys(ok)
    \/ \E ok \in BOOLEAN : SendEnter(ok)
    \/ Finish

\* input() returns once the operator has answered and subprocess.run returns
\* once tmux has exited: a response eventually arrives and every tmux command
\* eventually returns
WriteSpec ==
    /\ Init
    /\ [][WriteNext]_vars
    /\ WF_vars(\E r \in Responses : Respond(r))
    /\ WF_vars(\E ok \in BOOLEAN : SendKeys(ok))
    /\ WF_vars(\E ok \in BOOLEAN : SendEnter(ok))


-----------------------------------------------------------------------------
(* What the log shows, in the words of the specification.                  *)

Sending == op \in {"send_keys_to_window", "send_command_to_window"}

EventsOf(ev) == SelectSeq(log, LAMBDA e : e.ev = ev)

\* the positions of the log that hold an `ev` observation, in order
PositionsOf(ev) ==
    SelectSeq([i \in 1..Len(log) |-> i], LAMBDA i : log[i].ev = ev)

\* the call was made with safety-mode enabled and confirm=True
GateArmed == entry_cfg.safety_mode /\ args.confirm

\* the Safety Gate ended in CONFIRMED
GateConfirmed ==
    IF GateArmed
    THEN \E i \in 1..Len(log) : log[i].ev = "input" /\ log[i].out \in YesAnyCase
    ELSE TRUE

Returned(kind) == pc = "done" /\ retval.kind = kind

-----------------------------------------------------------------------------
\* C1: a send_keys_to_window call made with safety-mode enabled and
\* confirm=True that gets a response other than 'yes' (in any case; the empty
\* response included) returns False, and no send-keys command is issued
\* during the call.
C1_RejectedNeverSends ==
    (/\ Sending
     /\ GateArmed
     /\ \E i \in 1..Len(log) : log[i].ev = "input" /\ log[i].out \notin YesAnyCase)
    => /\ Returned("bool")
       /\ retval.val = FALSE
       /\ EventsOf("send-keys") = <<>>

C1_Witness ==
    /\ op = "send_keys_to_window"
    /\ GateArmed
    /\ pc = "done"
    /\ \E i \in 1..Len(log) : log[i].ev = "input" /\ log[i].out = <<>>

\* C2: when safety-mode is disabled or confirm=False, the call is never
\* awaiting confirmation: no prompt is issued, no input is read, and the
\* send-keys command is the first thing the call does.
C2_BypassNeverAwaits ==
    (Sending /\ ~GateArmed)
    => /\ pc # "awaiting"
       /\ EventsOf("prompt") = <<>>
       /\ EventsOf("input") = <<>>
       /\ IF log = <<>> THEN pc = "send_keys" ELSE log[1].ev = "send-keys"

C2_Witness ==
    /\ op = "send_keys_to_window"
    /\ ~entry_cfg.safety_mode
    /\ args.confirm
    /\ pc = "done"
    /\ Len(log) = 1
    /\ log[1].ev = "send-keys"

\* C3: send_keys_to_window returns True exactly when the gate ended in
\* CONFIRMED and its one send-keys command succeeded, and False otherwise.
C3_SuccessIffConfirmedAndSent ==
    (op = "send_keys_to_window" /\ pc = "done")
    => /\ retval.kind = "bool"
       /\ Len(EventsOf("send-keys")) <= 1
       /\ retval.val <=> (/\ GateConfirmed
                          /\ Len(EventsOf("send-keys")) = 1
                          /\ EventsOf("send-keys")[1].ok)

C3_Witness ==
    /\ op = "send_keys_to_window"
    /\ GateArmed
    /\ Returned("bool")
    /\ retval.val = TRUE
    /\ \E i \in 1..Len(log) : log[i].ev = "input" /\ log[i].out = <<"Y", "E", "S">>

\* C4: in send_command_to_window the C-m command is issued exactly when the
\* text step succeeded (gate CONFIRMED, text accepted by tmux), after the
\* text, with no second prompt; a True result means exactly the two commands
\* [text, C-m], and a rejected or failed text step is followed by nothing.
C4_ExecuteIffTextSucceeded ==
    op = "send_command_to_window"
    => LET sk == EventsOf("send-keys")
           at == PositionsOf("send-keys")
       IN  /\ Len(sk) <= 2
           /\ Len(EventsOf("prompt")) <= 1
           /\ \A i \in 1..Len(log) :
                  log[i].ev \in {"prompt", "input"} => (at = <<>> \/ i < at[1])
           /\ Len(sk) >= 1 =>
                  /\ GateConfirmed
                  /\ sk[1].keys = args.keys
                  /\ sk[1].session = args.session
                  /\ sk[1].index = args.index
           /\ Len(sk) = 2 =>
                  /\ sk[1].ok
                  /\ sk[2].keys = ExecuteKey
                  /\ sk[2].session = args.session
                  /\ sk[2].index = args.index
           /\ pc = "done" =>
                  /\ retval.kind = "bool"
                  /\ Len(sk) = 2 <=> (GateConfirmed /\ Len(sk) >= 1 /\ sk[1].ok)
                  /\ retval.val => (Len(sk) = 2 /\ sk[1].ok /\ sk[2].ok)

C4_Witness ==
    /\ op = "send_command_to_window"
    /\ GateArmed
    /\ Returned("bool")
    /\ retval.val = TRUE
    /\ Len(EventsOf("send-keys")) = 2


\* the session names of the list-sessions output the call received
ListedNames ==
    LET lines == SelectSeq(Split(Strip(log[1].out), "\n"), LAMBDA l : l # <<>>)
    IN  [k \in 1..Len(lines) |-> Split(lines[k], ":")[1]]

\* the sessions of the value the call returned
ResultSessions ==
    IF retval.kind = "sessions" THEN retval.val
    ELSE IF retval.kind = "status" THEN retval.val.sessions
    ELSE <<>>

RECURSIVE FlattenWindows(_)
FlattenWindows(sess) ==
    IF sess = <<>> THEN <<>> ELSE Head(sess).windows \o FlattenWindows(Tail(sess))

Clamp(n, lo, hi) == IF n < lo THEN lo ELSE IF n > hi THEN hi ELSE n

\* C5: when list-windows fails for one session, get_tmux_sessions and
\* get_all_windows_status still return every listed session: the failing one
\* with no windows, the others with the windows tmux listed for them.
C5_FailedWindowListIsLocal ==
    (/\ op \in {"get_tmux_sessions", "get_all_windows_status"}
     /\ pc = "done"
     /\ \E i \in 1..Len(log) : log[i].ev = "list-windows" /\ ~log[i].ok)
    => /\ retval.kind \in {"sessions", "status"}
       /\ [k \in 1..Len(ResultSessions) |-> ResultSessions[k].name] = ListedNames
       /\ \A k \in 1..Len(ResultSessions) :
              \A i \in 1..Len(log) :
                  (log[i].ev = "list-windows" /\ log[i].session = ResultSessions[k].name)
                  => (ResultSessions[k].windows = <<>>) <=>
                         (~log[i].ok \/ Strip(log[i].out) = <<>>)

\* C6: in get_all_windows_status a failed display-message or capture-pane
\* is recorded in the slot of its own window (the error dict, or the error
\* text as content); every other slot is filled from what tmux answered for
\* it, every listed window has its slot, and no failure ends the call.
C6_WindowFailureStaysInItsSlot ==
    (op = "get_all_windows_status" /\ pc = "done")
    => /\ retval.kind \in {"status", "raised"}
       /\ retval.kind = "raised" => log[Len(log)].ok
       /\ retval.kind = "status" =>
            LET slots  == FlattenWindows(retval.val.sessions)
                listed == FlattenWindows(sessions)
                dm     == PositionsOf("display-message")
            IN  /\ Len(slots) = Len(listed)
                /\ Len(dm) = Len(listed)
                /\ [k \in 1..Len(retval.val.sessions) |-> retval.val.sessions[k].name]
                     = [k \in 1..Len(sessions) |-> sessions[k].name]
                /\ \A k \in 1..Len(slots) :
                     LET e == log[dm[k]]
                         w == slots[k]
                     IN  /\ w.index = listed[k].window_index
                         /\ w.name = listed[k].window_name
                         /\ e.index = w.index
                         /\ e.session = listed[k].session_name
                         /\ ~e.ok => (w.info.kind = "error" /\ w.info.error # <<>>)
                         /\ (e.ok /\ Strip(e.out) # <<>>) =>
                              /\ dm[k] < Len(log)
                              /\ log[dm[k] + 1].ev = "capture-pane"
                              /\ log[dm[k] + 1].index = w.index
                              /\ w.info.kind = "info"
                              /\ w.info.name # <<>>
                              /\ w.info.layout # <<>>
                              /\ w.info.content =
                                   IF log[dm[k] + 1].ok THEN log[dm[k] + 1].out
                                   ELSE ErrCaptureText

C6_Witness ==
    /\ op = "get_all_windows_status"
    /\ Returned("status")
    /\ LET slots == FlattenWindows(retval.val.sessions)
       IN  /\ Len(slots) >= 3
           /\ Cardinality({k \in 1..Len(slots) : slots[k].info.kind = "error"}) = 1
           /\ \E k \in 1..Len(slots) :
                  slots[k].info.kind = "info" /\ slots[k].info.content = ErrCaptureText
           /\ \E k \in 1..Len(slots) :
                  slots[k].info.kind = "info" /\ slots[k].info.content \in CaptureOut

\* C7: the line count capture_window_content passes to capture-pane is the
\* requested count clamped to [1, max_lines_capture].
C7_LinesClampedToOneAndMax ==
    (op = "capture_window_content" /\ cfg_changes = 0)
    => \A i \in 1..Len(log) :
           log[i].ev = "capture-pane"
           => log[i].lines = Clamp(args.num_lines, 1, max_lines_capture)

\* C8: when list-sessions fails, get_tmux_sessions returns [],
\* get_all_windows_status returns a status without sessions,
\* find_window_by_name returns [], none of them raises, and no further tmux
\* command is issued.
C8_NoServerIsEmptySystem ==
    (/\ op \in {"get_tmux_sessions", "get_all_windows_status", "find_window_by_name"}
     /\ log # <<>>
     /\ ~log[1].ok)
    => /\ log[1].ev = "list-sessions"
       /\ \A i \in 2..Len(log) : log[i].ev = "now"
       /\ pc \in {"init_status", "done"}
       /\ pc = "done" =>
            CASE op = "get_tmux_sessions" -> retval = Ret("sessions", <<>>)
              [] op = "find_window_by_name" -> retval = Ret("matches", <<>>)
              [] OTHER -> retval.kind = "status" /\ retval.val.sessions = <<>>

C8_Witness ==
    /\ op = "get_all_windows_status"
    /\ pc = "done"
    /\ log # <<>>
    /\ log[1].ev = "list-sessions"
    /\ ~log[1].ok

\* C9 as claimed: the timestamp of get_all_windows_status is taken once and
\* before the first tmux query of the call.
C9_TimestampBeforeFirstQuery ==
    op = "get_all_windows_status"
    => /\ Len(PositionsOf("now")) <= 1
       /\ \A i \in 1..Len(log) :
              log[i].ev # "now" => \E j \in 1..(i - 1) : log[j].ev = "now"

\* C9 as amended: the timestamp is taken once, after get_tmux_sessions has
\* returned (after every list-sessions and list-windows query of the call)
\* and before the first display-message or capture-pane query; a returned
\* status carries that one reading.
C9_TimestampOnceAfterListing ==
    op = "get_all_windows_status"
    => LET now == PositionsOf("now")
       IN  /\ Len(now) <= 1
           /\ \A i \in 1..Len(log) :
                  /\ log[i].ev \in {"list-sessions", "list-windows"}
                       => \A j \in 1..Len(now) : i < now[j]
                  /\ log[i].ev \in {"display-message", "capture-pane"}
                       => \E j \in 1..Len(now) : now[j] < i
           /\ Returned("status") =>
                  /\ Len(now) = 1
                  /\ retval.val.timestamp = log[now[1]].lines
                  /\ retval.val.timestamp = now[1] - 1

C9_Witness ==
    /\ op = "get_all_windows_status"
    /\ Returned("status")
    /\ EventsOf("list-windows") # <<>>
    /\ EventsOf("capture-pane") # <<>>
    /\ PositionsOf("now")[1] > 2

\* C10: within one top-level operation every use of safety_mode and
\* max_lines_capture takes the value current when the operation started: the
\* prompt is decided by the safety_mode at entry, and every capture of one
\* get_all_windows_status is clamped with the max_lines_capture at entry.
C10_ConfigurationReadAtEntry ==
    /\ op = "send_command_to_window"
         => (EventsOf("prompt") # <<>>) <=> (entry_cfg.safety_mode /\ args.confirm)
    /\ op = "get_all_windows_status"
         => \A i \in 1..Len(log) :
                log[i].ev = "capture-pane"
                => log[i].lines = IF DefaultNumLines > entry_cfg.max_lines_capture
                                  THEN entry_cfg.max_lines_capture
                                  ELSE DefaultNumLines


-----------------------------------------------------------------------------
RECURSIVE WindowsOfLines(_, _)
\* the <<session, index, name>> of the window lines tmux printed for a session
WindowsOfLines(session, lines) ==
    IF lines = <<>> THEN <<>>
    ELSE IF Head(lines) = <<>> THEN WindowsOfLines(session, Tail(lines))
    ELSE LET f == Split(Head(lines), ":")
         IN  << <<session, IntVal(f[1]), f[2]>> >> \o WindowsOfLines(session, Tail(lines))

\* the windows tmux listed during the call, in the order it listed them
ListedWindows ==
    Concat([i \in 1..Len(log) |->
               IF log[i].ev = "list-windows" /\ log[i].ok
               THEN WindowsOfLines(log[i].session, Split(Strip(log[i].out), "\n"))
               ELSE <<>>])

\* pattern occurs in name when the case of the letters is ignored
OccursIgnoringCase(pattern, name) ==
    \E i \in 1..(Len(name) - Len(pattern) + 1) :
        \A j \in 1..Len(pattern) : LowerChar(name[i + j - 1]) = LowerChar(pattern[j])

\* C11: find_window_by_name(pattern) queries the listing anew and returns
\* the (session name, window index) pairs of exactly the windows tmux listed
\* whose name contains the pattern, ignoring case, in the order tmux listed
\* them; the empty pattern gives every window and a pattern that matches
\* nothing gives the empty sequence.
C11_FindReturnsExactlyTheMatches ==
    (op = "find_window_by_name" /\ pc = "done" /\ retval.kind # "raised")
    => /\ retval.kind = "matches"
       /\ log # <<>>
       /\ log[1].ev = "list-sessions"
       /\ LET listed == ListedWindows
              hits   == SelectSeq(listed, LAMBDA w : OccursIgnoringCase(args.pattern, w[3]))
          IN  /\ retval.val = [k \in 1..Len(hits) |-> <<hits[k][1], hits[k][2]>>]
              /\ args.pattern = <<>> => Len(retval.val) = Len(listed)

StartsWith(text, prefix) ==
    Len(text) >= Len(prefix) /\ SubSeq(text, 1, Len(prefix)) = prefix

\* the lines of a text: the pieces between its newline characters
LinesOf(text) ==
    LET breaks == SelectSeq([i \in 1..Len(text) |-> i], LAMBDA i : text[i] = "\n")
    IN  [k \in 1..(Len(breaks) + 1) |->
            SubSeq(text,
                   IF k = 1 THEN 1 ELSE breaks[k - 1] + 1,
                   IF k = Len(breaks) + 1 THEN Len(text) ELSE breaks[k] - 1)]

\* the positions of the "  Window i: name" lines among the digest's lines
WindowLinePositions(lines) ==
    SelectSeq([i \in 1..Len(lines) |-> i], LAMBDA i : StartsWith(lines[i], WindowLabel))

\* the content lines, marker removed, of the window block that starts at
\* line `at` of the digest
BlockContent(lines, at) ==
    LET stops == { i \in (at + 1)..Len(lines) :
                      StartsWith(lines[i], WindowLabel) \/ StartsWith(lines[i], SessionLabel) }
        last  == IF stops = {} THEN Len(lines)
                 ELSE (CHOOSE i \in stops : \A j \in stops : i <= j) - 1
        marked == SelectSeq(SubSeq(lines, at + 1, last),
                            LAMBDA l : StartsWith(l, LineMarker))
    IN  [i \in 1..Len(marked) |-> SubSeq(marked[i], Len(LineMarker) + 1, Len(marked[i]))]

\* the content lines of every window block of the returned digest
DigestBlocks ==
    LET lines == LinesOf(retval.val)
        at    == WindowLinePositions(lines)
    IN  [k \in 1..Len(at) |-> BlockContent(lines, at[k])]

\* the last n elements of a sequence (all of them when there are fewer)
LastN(seq, n) == IF Len(seq) > n THEN SubSeq(seq, Len(seq) - n + 1, Len(seq)) ELSE seq

\* C12: for every window with captured content, the content lines of its
\* block in the digest are exactly the non-blank lines among the last 10 raw
\* lines of the content, in order, each behind the marker; no block has more
\* than 10 content lines and none of them is blank.
C12_DigestShowsNonBlankOfLastTen ==
    (op = "create_monitoring_snapshot" /\ Returned("text"))
    => LET slots  == FlattenWindows(status.sessions)
           blocks == DigestBlocks
       IN  /\ Len(blocks) = Len(slots)
           /\ \A k \in 1..Len(slots) :
                  LET shown == blocks[k]
                  IN  /\ Len(shown) <= 10
                      /\ \A i \in 1..Len(shown) : Strip(shown[i]) # <<>>
                      /\ slots[k].info.kind = "info" =>
                           shown = SelectSeq(LastN(LinesOf(slots[k].info.content), 10),
                                             LAMBDA l : Strip(l) # <<>>)
                      /\ slots[k].info.kind # "info" => shown = <<>>

C12_Witness ==
    /\ op = "create_monitoring_snapshot"
    /\ Returned("text")
    /\ Len(status.sessions) = 2
    /\ LET slots  == FlattenWindows(status.sessions)
           blocks == DigestBlocks
       IN  /\ Len(slots) >= 2
           /\ \E k \in 1..Len(slots) :
                  /\ slots[k].info.kind = "info"
                  /\ slots[k].info.content \in CaptureOut
                  /\ Len(blocks[k]) = 8
           /\ \E k \in 1..Len(slots) :
                  /\ slots[k].info.kind = "info"
                  /\ slots[k].info.content = ErrCaptureText
                  /\ Len(blocks[k]) = 1

-----------------------------------------------------------------------------
\* the non-empty lines of what a listing command printed
ListingLines(out) == SelectSeq(LinesOf(Strip(out)), LAMBDA l : l # <<>>)

\* the number of ':'-separated fields of a line
FieldCount(line) == Len(SelectSeq(line, LAMBDA c : c = ":")) + 1

\* the output of the command has the number of fields its format asks for:
\* two per session line, three per window line, four for a window detail
FieldCountOk(e) ==
    CASE e.ev = "list-sessions" ->
             \A k \in 1..Len(ListingLines(e.out)) : FieldCount(ListingLines(e.out)[k]) = 2
      [] e.ev = "list-windows" ->
             \A k \in 1..Len(ListingLines(e.out)) : FieldCount(ListingLines(e.out)[k]) = 3
      [] e.ev = "display-message" ->
             Strip(e.out) = <<>> \/ FieldCount(Strip(e.out)) = 4
      [] OTHER -> TRUE

\* the numeric fields of a well-counted output are decimal integers
NumbersOk(e) ==
    CASE e.ev = "list-windows" ->
             \A k \in 1..Len(ListingLines(e.out)) :
                 IntOk(Split(ListingLines(e.out)[k], ":")[1])
      [] e.ev = "display-message" ->
             Strip(e.out) = <<>> \/ IntOk(Split(Strip(e.out), ":")[3])
      [] OTHER -> TRUE

\* the command succeeded and printed something that does not follow its format
Malformed(e) == e.ok /\ (~FieldCountOk(e) \/ ~NumbersOk(e))

\* C13: no public operation raises when a tmux command fails or prints
\* nothing: an operation that ends in an exception has seen a command succeed
\* with output that does not follow its format.
C13_NoRaiseOnFailureOrEmptyOutput ==
    retval.kind = "raised" => \E i \in 1..Len(log) : Malformed(log[i])

\* C14: a response with the wrong number of fields (a session line that is
\* not two fields, a window line that is not three, a detail line that is not
\* four) ends the operation in an error: it is never absorbed and its fields
\* are never assigned to the wrong names.
C14_WrongFieldCountIsHardError ==
    (pc = "done" /\ \E i \in 1..Len(log) : log[i].ok /\ ~FieldCountOk(log[i]))
    => retval.kind = "raised"

-----------------------------------------------------------------------------
\* C15: confirmation is never carried over from one dispatch call to the
\* next: every send-keys command of a call made with safety-mode enabled and
\* confirm=True comes after an affirmative response given inside that same
\* call, whatever was answered to the call before it.
C15_ConfirmationIsPerCall ==
    (Sending /\ GateArmed)
    => \A i \in 1..Len(log) :
           log[i].ev = "send-keys"
           => \E j \in 1..(i - 1) : log[j].ev = "input" /\ log[j].out \in YesAnyCase

\* the call before was answered 'yes'; this one is asked again, is refused
\* and sends nothing
C15_Witness ==
    /\ prior_yes
    /\ Sending
    /\ GateArmed
    /\ Returned("bool")
    /\ retval.val = FALSE
    /\ log[1].ev = "prompt"
    /\ EventsOf("send-keys") = <<>>

-----------------------------------------------------------------------------
\* C16: a dispatch that is awaiting confirmation issues no tmux command and
\* stays where it is until a response arrives: while it waits the only thing
\* observed is the response, and the wait ends only with a response (there is
\* no timeout).  When a response eventually arrives and every tmux command
\* returns, each send_keys_to_window and send_command_to_window call
\* eventually ends with True or False.
C16_AwaitingEndsOnlyByResponse ==
    /\ [][pc = "awaiting"
          => \/ pc' = "awaiting" /\ log' = log
             \/ /\ pc' # "awaiting"
                /\ Len(log') = Len(log) + 1
                /\ SubSeq(log', 1, Len(log)) = log
                /\ log'[Len(log')].ev = "input"]_vars
    /\ (Sending /\ pc # "done") ~> (Sending /\ Returned("bool"))

\* a call that waited, was answered 'yes' and sent its keys has returned
C16_Witness ==
    /\ Sending
    /\ Returned("bool")
    /\ Len(log) >= 3
    /\ log[1].ev = "prompt"
    /\ log[2].ev = "input"
    /\ log[3].ev = "send-keys"

-----------------------------------------------------------------------------
\* C17: the write path never retries: a send_keys_to_window call shows at
\* most one prompt and issues at most one send-keys command; a
\* send_command_to_window call shows at most one prompt and issues at most two
\* send-keys commands, the text first and the execute token second, each at
\* most once.
C17_WritePathNeverRetries ==
    Sending
    => LET sent == EventsOf("send-keys")
       IN  /\ Len(EventsOf("prompt")) <= 1
           /\ Len(EventsOf("input")) <= 1
           /\ op = "send_keys_to_window" => Len(sent) <= 1
           /\ op = "send_command_to_window" => Len(sent) <= 2
           /\ Len(sent) >= 1 => sent[1].keys = args.keys
           /\ Len(sent) = 2 => sent[2].keys = ExecuteKey

\* a send-keys command failed after the prompt and the call ended there
C17_Witness ==
    /\ op = "send_keys_to_window"
    /\ Returned("bool")
    /\ retval.val = FALSE
    /\ Len(EventsOf("prompt")) = 1
    /\ Len(EventsOf("send-keys")) = 1
    /\ ~EventsOf("send-keys")[1].ok

\* the methods that make up get_all_windows_status, alone or for the digest
SnapshotOps == {"get_all_windows_status", "create_monitoring_snapshot"}

\* C18: during get_all_windows_status every list-sessions and list-windows
\* query comes before the first display-message or capture-pane query; every
\* capture-pane query comes right after the successful display-message query
\* of the same window; and window queries address only (session, index) pairs
\* of the listing get_tmux_sessions returned.
C18_ListingBeforeWindowQueries ==
    op \in SnapshotOps
    => LET listed == FlattenWindows(sessions)
           pairs  == { <<listed[k].session_name, listed[k].window_index>> :
                          k \in 1..Len(listed) }
           listing == { i \in 1..Len(log) : log[i].ev \in {"list-sessions", "list-windows"} }
           queries == { j \in 1..Len(log) : log[j].ev \in {"display-message", "capture-pane"} }
       IN
       /\ \A i \in listing : \A j \in queries : i < j
       /\ \A j \in 1..Len(log) :
              log[j].ev = "capture-pane"
              => /\ j > 1
                 /\ log[j - 1].ev = "display-message"
                 /\ log[j - 1].ok
                 /\ log[j - 1].session = log[j].session
                 /\ log[j - 1].index = log[j].index
       /\ \A j \in queries : <<log[j].session, log[j].index>> \in pairs

\* a status of two sessions was returned: three windows were queried, the
\* second of a session among them
C18_Witness ==
    /\ op = "get_all_windows_status"
    /\ Returned("status")
    /\ Len(EventsOf("list-windows")) = 2
    /\ Len(EventsOf("display-message")) >= 3
    /\ Len(EventsOf("capture-pane")) >= 1
    /\ \E j \in 1..Len(log) : log[j].ev = "capture-pane" /\ log[j].index = 1

\* C19: when send_command_to_window returns False, either no send-keys
\* command succeeded during the call, or exactly the text command succeeded
\* and the execute command failed.
C19_FailureLeavesAtMostTheText ==
    (op = "send_command_to_window" /\ Returned("bool") /\ retval.val = FALSE)
    => LET sent == EventsOf("send-keys")
       IN  \/ \A i \in 1..Len(sent) : ~sent[i].ok
           \/ /\ Len(sent) = 2
              /\ sent[1].ok /\ sent[1].keys = args.keys
              /\ ~sent[2].ok /\ sent[2].keys = ExecuteKey

\* the text went in, the execute command failed, False was returned
C19_Witness ==
    /\ op = "send_command_to_window"
    /\ Returned("bool")
    /\ retval.val = FALSE
    /\ Len(EventsOf("send-keys")) = 2
    /\ EventsOf("send-keys")[1].ok
    /\ ~EventsOf("send-keys")[2].ok

\* the methods of the read path
ReadOps ==
    {"get_tmux_sessions", "capture_window_content", "get_window_info",
     "get_all_windows_status", "find_window_by_name", "create_monitoring_snapshot"}

\* C20: the read path is non-intrusive: while one of its operations runs no
\* send-keys command is issued, no prompt is shown and no response is read,
\* and no step of the operation changes safety_mode or max_lines_capture
\* (they change only when the operator assigns them).
C20_ReadPathIsNonIntrusive ==
    /\ [](op \in ReadOps
          => \A i \in 1..Len(log) : log[i].ev \notin {"send-keys", "prompt", "input"})
    /\ [][(op \in ReadOps /\ cfg_changes' = cfg_changes) => UNCHANGED Config]_vars

\* a snapshot that captured a window has returned
C20_Witness ==
    /\ op = "get_all_windows_status"
    /\ Returned("status")
    /\ \E i \in 1..Len(log) : log[i].ev = "capture-pane" /\ log[i].ok
    /\ Config = <<entry_cfg.safety_mode, entry_cfg.max_lines_capture>>

====
